---- MODULE Spec2Model ----
\* ClipNest: the clipboard-history store (src/database.py), the clipboard
\* change detector (src/clipboard_monitor.py) and the click-to-copy, favorite
\* and clear actions of the window (src/ui.py).
\*
\* Strings are sequences of one-character strings, so that LIKE matching,
\* substring containment and str.strip() are computed and not assumed.
\* Time is counted in ticks; a tick is the resolution of sqlite's datetime()
\* and of the image file name's "%Y%m%d_%H%M%S" stamp. A stored timestamp
\* also keeps the order of the clock readings within a tick.
EXTENDS Integers, Sequences, FiniteSets, TLC

\* ---------------------------------------------------------------- bounds
\* Rows the detector inserts: the AUTOINCREMENT ids are 1..MaxId.
MaxId == 2
\* Rows inserted when the storage API is called directly: ids 1..MaxDbId.
MaxDbId == 3
\* The UTC clock runs 0..MaxTime.
MaxTime == 1
\* history_limit (200 in the source) is drawn from 1..MaxHistoryLimit.
MaxHistoryLimit == 2
\* Ticks in one minute of the dedup window.
TicksPerMinute == 1
\* The LIMIT argument of the queries is drawn from 0..MaxLimit.
MaxLimit == 1

\* ------------------------------------------------------ program constants
time_window_minutes == 1

VARIABLES
    \* ClipboardDatabase
    items,            \* the rows of clipboard_items
    nextId,           \* the next AUTOINCREMENT id
    connection,       \* "open" | "closed"
    history_limit,    \* ClipboardDatabase.history_limit
    \* the environment
    now,              \* the UTC clock, in ticks
    tz,               \* the local zone's offset from UTC, in quarter hours
    clipboard,        \* the OS clipboard: [image, text], None where absent
    pending,          \* the dataChanged notification not yet delivered, named
                      \* by the write that caused it, or None
    files,            \* the saved image files: path -> image
    \* ClipNestMonitor
    ignore_next_change,
    skip_next_image,
    skip_next_text,
    last_clipboard_text,
    last_clipboard_image_hash,
    \* history of the run, read by the properties only
    last,             \* the last call: its name, argument, result
    before,           \* the rows as they were before the last storage call
    before2,          \* the rows before the last two storage calls, when both
                      \* were successful toggle_favorite calls of one id
    echoed,           \* the notification handled last was the echo of a
                      \* set_clipboard write and was ignored
    stored_text       \* the content of the text row inserted last, or None

dbvars == <<items, nextId, connection, history_limit>>
envvars == <<clipboard, pending, files>>
monvars == <<ignore_next_change, skip_next_image, skip_next_text,
             last_clipboard_text, last_clipboard_image_hash>>
histvars == <<last, before, before2, echoed, stored_text>>
vars == <<dbvars, now, tz, envvars, monvars, histvars>>

\* ------------------------------------------------------------- utilities
Min(a, b) == IF a < b THEN a ELSE b

None == <<"None">>

NoPair == [twice |-> FALSE, rows |-> {}]

\* The local wall clock, in ticks.
LocalTime == now + tz * (15 * TicksPerMinute)

\* datetime.now(): naive local time to the microsecond, which the sqlite3
\* adapter stores as "YYYY-MM-DD HH:MM:SS.ffffff" without a zone. Two rows
\* are never stamped in the same microsecond: within a tick the readings of
\* the clock are told apart by the order of the inserts.
datetime_now == [sec |-> LocalTime, us |-> nextId]

\* The order of the stored "YYYY-MM-DD HH:MM:SS.ffffff" texts.
TsLeq(t1, t2) == t1.sec < t2.sec \/ (t1.sec = t2.sec /\ t1.us <= t2.us)

\* datetime(timestamp): the time to the second, read as UTC.
sql_datetime(t) == t.sec

TimeZones == {-1, 0, 1}

\* ------------------------------------------------------------ strings
Whitespace == {" "}

Lower(c) == IF c = "A" THEN "a" ELSE c

\* SQLite's LIKE: '%' matches any run of characters, '_' exactly one, and
\* ASCII letters match without regard to case.
RECURSIVE Like(_, _)
Like(p, s) ==
    IF p = <<>> THEN s = <<>>
    ELSE IF Head(p) = "%"
         THEN Like(Tail(p), s) \/ (s # <<>> /\ Like(p, Tail(s)))
    ELSE IF s = <<>> THEN FALSE
    ELSE IF Head(p) = "_" THEN Like(Tail(p), Tail(s))
    ELSE Lower(Head(p)) = Lower(Head(s)) /\ Like(Tail(p), Tail(s))

\* f"%{query}%"
search_pattern(query) == <<"%">> \o query \o <<"%">>

\* ------------------------------------------------------------ the store
Favorites(rows) == {r \in rows : r.is_favorite}
NonFavorites(rows) == {r \in rows : ~r.is_favorite}

\* connection.cursor() raises ProgrammingError on a closed connection.
CursorFails(conn) == conn = "closed"

\* WHERE content = ? AND datetime(timestamp) > datetime('now', '-1 minutes'):
\* the stored local time is read as if it were UTC.
is_duplicate(rows, content) ==
    \E r \in rows :
        /\ r.content = content
        /\ sql_datetime(r.timestamp) > now - time_window_minutes * TicksPerMinute

\* The subselect without its WHERE is_favorite = FALSE: the n oldest rows of
\* any kind. C5 must tell the two apart.
OldestRows(rows, n) ==
    LET k == Min(n, Cardinality(rows))
    IN {D \in SUBSET rows :
            /\ Cardinality(D) = k
            /\ \A d \in D : \A r \in rows \ D : TsLeq(d.timestamp, r.timestamp)}

\* SELECT id ... WHERE is_favorite = FALSE ORDER BY timestamp ASC LIMIT n:
\* every set of n oldest non-favorite rows (rows of equal timestamp come in
\* no stated order).
OldestNonFavorites(rows, n) ==
    LET nf == NonFavorites(rows)
        k == Min(n, Cardinality(nf))
    IN {D \in SUBSET nf :
            /\ Cardinality(D) = k
            /\ \A d \in D : \A r \in nf \ D : TsLeq(d.timestamp, r.timestamp)}

\* add_item without its call of _enforce_history_limit: every row is kept.
\* C16 must tell the two apart.
keep_every_row(rows, limit) == {rows}

\* The row sets _enforce_history_limit can leave.
enforce_history_limit(rows, limit) ==
    LET total_items == Cardinality(rows)
    IN IF total_items > limit
       THEN {rows \ D : D \in OldestNonFavorites(rows, total_items - limit)}
       ELSE {rows}

NewRow(content_type, content, timestamp) ==
    [id |-> nextId, content_type |-> content_type, content |-> content,
     timestamp |-> timestamp, is_favorite |-> FALSE, created_at |-> now]

\* except Exception as e: print(...); return <failure indicator>
Swallowed(rows, indicator) == [rows |-> rows, ret |-> indicator, raised |-> FALSE]

Returned(rows, ret) == [rows |-> rows, ret |-> ret, raised |-> FALSE]

\* add_item: the outcomes [rows, ret, raised] of one call. On a closed
\* connection _is_duplicate swallows its error and answers False, and the
\* cursor() of add_item raises into add_item's own except clause.
add_item(rows, conn, limit, content_type, content, timestamp) ==
    IF CursorFails(conn) THEN {Swallowed(rows, FALSE)}
    ELSE IF is_duplicate(rows, content) THEN {Returned(rows, FALSE)}
    ELSE {Returned(kept, TRUE) :
            kept \in enforce_history_limit(
                rows \cup {NewRow(content_type, content, timestamp)}, limit)}

\* ORDER BY timestamp DESC alone: the favorites-first key left out. C8 must
\* tell the two apart.
OrderedByTimestamp(r1, r2) == TsLeq(r2.timestamp, r1.timestamp)

\* ORDER BY is_favorite DESC, timestamp DESC
OrderedBefore(r1, r2) ==
    \/ r1.is_favorite /\ ~r2.is_favorite
    \/ r1.is_favorite = r2.is_favorite /\ TsLeq(r2.timestamp, r1.timestamp)

\* Every listing of `rows` in that order (rows that tie come in any order).
RECURSIVE Orderings(_)
Orderings(rows) ==
    IF rows = {} THEN {<<>>}
    ELSE UNION {{<<r>> \o s : s \in Orderings(rows \ {r})} :
                    r \in {x \in rows : \A y \in rows : OrderedBefore(x, y)}}

\* ... LIMIT ? (SQLite reads a negative LIMIT as no limit)
Limited(s, limit) == IF limit < 0 THEN s ELSE SubSeq(s, 1, Min(limit, Len(s)))

get_history(rows, conn, limit) ==
    IF CursorFails(conn) THEN {Swallowed(rows, <<>>)}
    ELSE {Returned(rows, Limited(s, limit)) : s \in Orderings(rows)}

search_items(rows, conn, query, limit) ==
    IF CursorFails(conn) THEN {Swallowed(rows, <<>>)}
    ELSE {Returned(rows, Limited(s, limit)) :
            s \in Orderings({r \in rows : Like(search_pattern(query), r.content)})}

\* UPDATE ... SET is_favorite = TRUE WHERE id = ?: a toggle that can only set
\* the flag. C6 must tell the two apart.
mark_favorite(rows, conn, item_id) ==
    IF CursorFails(conn) THEN Swallowed(rows, FALSE)
    ELSE Returned({IF r.id = item_id
                   THEN [r EXCEPT !.is_favorite = TRUE]
                   ELSE r : r \in rows},
                  \E r \in rows : r.id = item_id)

\* UPDATE ... SET is_favorite = NOT is_favorite WHERE id = ?; rowcount > 0
toggle_favorite(rows, conn, item_id) ==
    IF CursorFails(conn) THEN Swallowed(rows, FALSE)
    ELSE Returned({IF r.id = item_id
                   THEN [r EXCEPT !.is_favorite = ~r.is_favorite]
                   ELSE r : r \in rows},
                  \E r \in rows : r.id = item_id)

\* DELETE FROM clipboard_items WHERE id <= ?: the rows up to that id. C15 must
\* tell the two apart.
delete_up_to(rows, conn, item_id) ==
    IF CursorFails(conn) THEN Swallowed(rows, FALSE)
    ELSE Returned({r \in rows : r.id > item_id}, \E r \in rows : r.id <= item_id)

\* DELETE FROM clipboard_items WHERE id = ?; rowcount > 0
delete_item(rows, conn, item_id) ==
    IF CursorFails(conn) THEN Swallowed(rows, FALSE)
    ELSE Returned({r \in rows : r.id # item_id}, \E r \in rows : r.id = item_id)

\* DELETE FROM clipboard_items whatever keep_favorites says. C11 must tell the
\* two apart.
clear_everything(rows, conn, keep_favorites) ==
    IF CursorFails(conn) THEN Swallowed(rows, FALSE)
    ELSE Returned({}, TRUE)

\* DELETE ... WHERE is_favorite = FALSE, or DELETE of every row
clear_history(rows, conn, keep_favorites) ==
    IF CursorFails(conn) THEN Swallowed(rows, FALSE)
    ELSE Returned(IF keep_favorites THEN Favorites(rows) ELSE {}, TRUE)

\* get_stats without its try/except: the error of cursor() reaches the caller.
\* C10 must tell the two apart.
get_stats_unguarded(rows, conn, limit) ==
    IF CursorFails(conn) THEN [rows |-> rows, ret |-> {}, raised |-> TRUE]
    ELSE Returned(rows, [total_items |-> Cardinality(rows),
                         favorite_items |-> Cardinality(Favorites(rows)),
                         history_limit |-> limit])

\* {} is the empty dict get_stats returns on an error.
get_stats(rows, conn, limit) ==
    IF CursorFails(conn) THEN Swallowed(rows, {})
    ELSE Returned(rows, [total_items |-> Cardinality(rows),
                         favorite_items |-> Cardinality(Favorites(rows)),
                         history_limit |-> limit])

\* ------------------------------------------------------------ the monitor
NullImage == <<"null">>
Images == {<<"i1">>, <<"i2">>}

\* image.bits().asstring(image.sizeInBytes()): the raw pixel bytes.
ImageBytes(image) == IF image = <<"i1">> THEN "x" ELSE "y"

\* hashlib.sha256(buffer).hexdigest()
hash_image(image) == <<"sha256", ImageBytes(image)>>

\* os.path.join(img_dir, f"clipnest_{timestamp}.png") with
\* timestamp = datetime.now().strftime("%Y%m%d_%H%M%S")
img_path(t) == <<"/", ToString(t.sec)>>

RECURSIVE lstrip(_)
lstrip(s) == IF s # <<>> /\ Head(s) \in Whitespace THEN lstrip(Tail(s)) ELSE s

RECURSIVE rstrip(_)
rstrip(s) ==
    IF s # <<>> /\ s[Len(s)] \in Whitespace
    THEN rstrip(SubSeq(s, 1, Len(s) - 1))
    ELSE s

\* str.strip()
strip(s) == rstrip(lstrip(s))

\* `if text:` alone, the strip() test left out. C9 must tell the two apart.
NonEmpty(text) == text # <<>>

\* `text and text.strip()`
NonBlank(text) == text # <<>> /\ strip(text) # <<>>

\* image.save(img_path, "PNG") writes or overwrites the file.
SaveFile(fs, path, image) ==
    [q \in DOMAIN fs \cup {path} |-> IF q = path THEN image ELSE fs[q]]

\* QImage(content): a null image when the file cannot be loaded.
LoadImage(fs, path) == IF path \in DOMAIN fs THEN fs[path] ELSE NullImage

TextClip(text) == [image |-> None, text |-> text]
ImageClip(image) == [image |-> image, text |-> None]

\* ------------------------------------------------------------- the inputs
DbContents == {<<"a", "b">>, <<"A">>}
Queries == {<<"a">>, <<"a", "_">>, <<"%">>}
Texts == {<<"a">>, <<"b">>, <<" ">>, <<>>}

Call(op, arg, ret, raised) ==
    [op |-> op, arg |-> arg, ret |-> ret, raised |-> raised]

\* ------------------------------------------------------------------ Init
Init ==
    /\ items = {}
    /\ nextId = 1
    /\ connection = "open"
    /\ history_limit \in 1..MaxHistoryLimit
    /\ now = 0
    /\ tz \in TimeZones
    /\ clipboard = [image |-> None, text |-> None]
    /\ pending = None
    /\ files = <<>>
    /\ ignore_next_change = FALSE
    /\ skip_next_image = FALSE
    /\ skip_next_text = FALSE
    /\ last_clipboard_text = None
    /\ last_clipboard_image_hash = None
    /\ last = Call("init", None, None, FALSE)
    /\ before = {}
    /\ before2 = NoPair
    /\ echoed = FALSE
    /\ stored_text = None

\* ------------------------------------------------------------ the clock
Tick ==
    /\ now < MaxTime
    /\ now' = now + 1
    /\ UNCHANGED <<dbvars, tz, envvars, monvars, histvars>>

\* ------------------------------------------------ actions: the storage API
\* One storage call: the rows it leaves, and the record of it.
StorageCall(op, arg, o) ==
    /\ items' = o.rows
    /\ last' = Call(op, arg, o.ret, o.raised)
    /\ before' = items
    /\ before2' = IF /\ op = "toggle_favorite"
                     /\ o.ret
                     /\ last.op = "toggle_favorite"
                     /\ last.arg = arg
                     /\ last.ret
                  THEN [twice |-> TRUE, rows |-> before]
                  ELSE NoPair
    /\ stored_text' = IF op = "add_item" /\ o.ret = TRUE THEN arg ELSE stored_text
    /\ UNCHANGED <<connection, history_limit, now, tz, envvars, monvars, echoed>>

DbAddItem ==
    \E content \in DbContents :
    \E o \in add_item(items, connection, history_limit, "text", content, datetime_now) :
        /\ nextId <= MaxDbId
        /\ nextId' = IF o.ret THEN nextId + 1 ELSE nextId
        /\ StorageCall("add_item", content, o)

DbToggleFavorite ==
    \E item_id \in 1..MaxDbId :
        /\ StorageCall("toggle_favorite", item_id,
                       toggle_favorite(items, connection, item_id))
        /\ UNCHANGED nextId

DbDeleteItem ==
    \E item_id \in 1..MaxDbId :
        /\ StorageCall("delete_item", item_id,
                       delete_item(items, connection, item_id))
        /\ UNCHANGED nextId

DbClearHistory ==
    \E keep_favorites \in BOOLEAN :
        /\ StorageCall("clear_history", keep_favorites,
                       clear_history(items, connection, keep_favorites))
        /\ UNCHANGED nextId

\* limit is a row count: the callers pass 100 (refresh_history) and 50
\* (on_search_changed).
DbGetHistory ==
    \E limit \in 0..MaxLimit :
    \E o \in get_history(items, connection, limit) :
        /\ StorageCall("get_history", limit, o)
        /\ UNCHANGED nextId

DbSearchItems ==
    \E query \in Queries :
    \E limit \in 0..MaxLimit :
    \E o \in search_items(items, connection, query, limit) :
        /\ StorageCall("search_items", [query |-> query, limit |-> limit], o)
        /\ UNCHANGED nextId

DbGetStats ==
    /\ StorageCall("get_stats", None, get_stats(items, connection, history_limit))
    /\ UNCHANGED nextId

\* close(): if self.connection: self.connection.close()
DbClose ==
    /\ connection' = "closed"
    /\ last' = Call("close", None, None, FALSE)
    /\ before' = items
    /\ before2' = NoPair
    /\ UNCHANGED <<items, nextId, history_limit, now, tz, envvars, monvars, echoed,
                   stored_text>>

\* The calls that change the store, with the clock.
NextDb ==
    \/ Tick
    \/ DbAddItem
    \/ DbToggleFavorite
    \/ DbDeleteItem
    \/ DbClearHistory

SpecDb == Init /\ [][NextDb]_vars

\* The store under inserts and favorite toggles alone.
NextRetention ==
    \/ Tick
    \/ DbAddItem
    \/ DbToggleFavorite

SpecRetention == Init /\ [][NextRetention]_vars

\* The queries over the stores that inserts and favorite toggles build.
NextQuery ==
    \/ NextRetention
    \/ DbGetHistory
    \/ DbSearchItems

SpecQuery == Init /\ [][NextQuery]_vars

\* Every operation of the storage API, before and after close(), at one
\* instant of the clock.
NextApi ==
    \/ DbAddItem
    \/ DbToggleFavorite
    \/ DbDeleteItem
    \/ DbClearHistory
    \/ DbGetHistory
    \/ DbSearchItems
    \/ DbGetStats
    \/ DbClose

SpecApi == Init /\ [][NextApi]_vars

\* ------------------------------------------- actions: the running program
\* Every write to the clipboard raises one dataChanged notification, which
\* the event loop delivers before the clipboard is written again.
WriteClipboard(src, clip) ==
    /\ pending = None
    /\ clipboard' = clip
    /\ pending' = <<src>>

\* The user copies text in some application.
UserCopyText ==
    \E text \in Texts :
        /\ WriteClipboard("user", TextClip(text))
        /\ UNCHANGED <<dbvars, now, tz, files, monvars, histvars>>

\* The user copies an image that has no text representation.
UserCopyImage ==
    \E image \in Images :
        /\ WriteClipboard("user", ImageClip(image))
        /\ UNCHANGED <<dbvars, now, tz, files, monvars, histvars>>

\* The user copies content offered both as an image and as text.
UserCopyBoth ==
    \E image \in {<<"i1">>, NullImage} : \E text \in {<<"a">>} :
        /\ WriteClipboard("user", [image |-> image, text |-> text])
        /\ UNCHANGED <<dbvars, now, tz, files, monvars, histvars>>

\* ClipNestUI.on_item_clicked: pyperclip.copy(content), for text rows and
\* image rows alike.
OnItemClicked ==
    \E r \in items :
        /\ WriteClipboard("click", TextClip(r.content))
        /\ UNCHANGED <<dbvars, now, tz, files, monvars, histvars>>

\* ClipNestMonitor.set_clipboard(content, content_type), restoring a row.
set_clipboard ==
    \E r \in items :
        LET image == LoadImage(files, r.content)
            written == r.content_type # "image" \/ image # NullImage
        IN /\ pending = None
           /\ ignore_next_change' = TRUE
           /\ skip_next_image' = (r.content_type = "image")
           /\ skip_next_text' = (r.content_type = "text")
           /\ IF written
              THEN LET clip == IF r.content_type = "image"
                               THEN ImageClip(image)
                               ELSE TextClip(r.content)
                   IN /\ clipboard' = clip
                      /\ pending' = <<"set">>
              ELSE UNCHANGED <<clipboard, pending>>
           /\ last' = Call("set_clipboard", r.content_type, written, FALSE)
           /\ UNCHANGED <<dbvars, now, tz, files, last_clipboard_text,
                          last_clipboard_image_hash, before, before2, echoed,
                          stored_text>>

\* md.hasImage() only when no text is offered beside the image, so that text
\* wins when both are present. C12 must tell the two apart.
hasImageOnly(md) == md.image # None /\ md.text = None

\* md.hasImage(), md.hasText()
hasImage(md) == md.image # None
hasText(md) == md.text # None

\* What one delivery of dataChanged does: the handler's result, the rows, the
\* files and the detector's fields it leaves.
Handled(ret, rows, fs, ignore, skipi, skipt, text, hash) ==
    [ret |-> ret, rows |-> rows, files |-> fs, ignore |-> ignore,
     skipi |-> skipi, skipt |-> skipt, text |-> text, hash |-> hash]

Unchanged(ret) ==
    Handled(ret, items, files, ignore_next_change, skip_next_image,
            skip_next_text, last_clipboard_text, last_clipboard_image_hash)

\* ClipNestMonitor._on_clipboard_change, reading the clipboard `md`.
on_clipboard_change(md) ==
    IF ignore_next_change
    THEN {[Unchanged("ignored") EXCEPT !.ignore = FALSE]}
    ELSE IF hasImage(md)
    THEN IF skip_next_image
         THEN {[Unchanged("skipped") EXCEPT !.skipi = FALSE]}
         ELSE IF md.image = NullImage THEN {Unchanged("null")}
         ELSE IF hash_image(md.image) = last_clipboard_image_hash
         THEN {Unchanged("same")}
         ELSE {Handled(IF o.ret THEN "added" ELSE "rejected", o.rows,
                       SaveFile(files, img_path(datetime_now), md.image),
                       ignore_next_change, skip_next_image, skip_next_text,
                       last_clipboard_text, hash_image(md.image)) :
                 o \in add_item(items, connection, history_limit, "image",
                                img_path(datetime_now), datetime_now)}
    ELSE IF hasText(md)
    THEN IF skip_next_text
         THEN {[Unchanged("skipped") EXCEPT !.skipt = FALSE]}
         ELSE IF ~NonBlank(md.text) THEN {Unchanged("blank")}
         ELSE IF md.text = last_clipboard_text THEN {Unchanged("same")}
         ELSE {Handled(IF o.ret THEN "added" ELSE "rejected", o.rows, files,
                       ignore_next_change, skip_next_image, skip_next_text,
                       md.text, last_clipboard_image_hash) :
                 o \in add_item(items, connection, history_limit, "text",
                                md.text, datetime_now)}
    ELSE {Unchanged("empty")}

\* Qt delivers dataChanged; the handler reads the clipboard.
OnClipboardChange ==
    /\ pending # None
    /\ \E h \in on_clipboard_change(clipboard) :
        /\ h.ret = "added" => nextId <= MaxId
        /\ pending' = None
        /\ items' = h.rows
        /\ nextId' = IF h.ret = "added" THEN nextId + 1 ELSE nextId
        /\ files' = h.files
        /\ ignore_next_change' = h.ignore
        /\ skip_next_image' = h.skipi
        /\ skip_next_text' = h.skipt
        /\ last_clipboard_text' = h.text
        /\ last_clipboard_image_hash' = h.hash
        /\ last' = Call("on_clipboard_change",
                        pending[1], h.ret, FALSE)
        /\ echoed' = (pending[1] = "set" /\ h.ret = "ignored")
        /\ stored_text' = IF h.ret = "added" /\ ~hasImage(clipboard)
                          THEN clipboard.text
                          ELSE stored_text
    /\ UNCHANGED <<connection, history_limit, now, tz, clipboard, before, before2>>

\* ClipNestUI.toggle_favorite on the selected row.
UiToggleFavorite ==
    \E r \in items :
        /\ StorageCall("toggle_favorite", r.id,
                       toggle_favorite(items, connection, r.id))
        /\ UNCHANGED nextId

\* ClipNestUI.clear_history: the confirmation dialog, then on Yes
\* database.clear_history(keep_favorites=True); on No nothing is called.
UiClearHistory ==
    \E reply \in {"Yes", "No"} :
        LET o == IF reply = "Yes"
                 THEN clear_history(items, connection, TRUE)
                 ELSE Returned(items, None)
        IN /\ items' = o.rows
           /\ last' = Call("ui_clear_history", reply, o.ret, o.raised)
           /\ before' = items
           /\ before2' = NoPair
           /\ UNCHANGED <<nextId, connection, history_limit, now, tz, envvars,
                          monvars, echoed, stored_text>>

\* The detector, the clipboard and the write-back paths.
NextMonitor ==
    \/ Tick
    \/ UserCopyText
    \/ UserCopyImage
    \/ UserCopyBoth
    \/ OnItemClicked
    \/ set_clipboard
    \/ OnClipboardChange

SpecMonitor == Init /\ [][NextMonitor]_vars

\* The store under inserts and favorites, cleared through its API and through
\* the window's clear button.
NextClear ==
    \/ DbAddItem
    \/ DbToggleFavorite
    \/ DbClearHistory
    \/ UiClearHistory

SpecClear == Init /\ [][NextClear]_vars

\* A saved image file is removed from ~/.clipboard_manager/images, so that
\* QImage(path) can no longer load it.
RemoveImageFile ==
    \E path \in DOMAIN files :
        /\ files' = [q \in DOMAIN files \ {path} |-> files[q]]
        /\ UNCHANGED <<dbvars, now, tz, clipboard, pending, monvars, histvars>>

\* The detector with set_clipboard restoring rows whose image file may be gone.
NextRestore ==
    \/ UserCopyText
    \/ UserCopyImage
    \/ RemoveImageFile
    \/ set_clipboard
    \/ OnClipboardChange

SpecRestore == Init /\ [][NextRestore]_vars

\* The running program.
Next ==
    \/ NextMonitor
    \/ UiToggleFavorite
    \/ UiClearHistory

Spec == Init /\ [][Next]_vars
\* ------------------------------------------------------------ properties
StoreCalls == {"add_item", "get_history", "search_items", "toggle_favorite",
               "delete_item", "clear_history", "get_stats"}

Window == time_window_minutes * TicksPerMinute

WithContent(rows, content) == {r \in rows : r.content = content}

IsBlank(s) == \A i \in 1..Len(s) : s[i] \in Whitespace

\* q occurs in s, letters compared as the store's NOCASE comparison does.
Contains(s, q) ==
    \E i \in 0..(Len(s) - Len(q)) :
        \A j \in 1..Len(q) : Lower(s[i + j]) = Lower(q[j])

Range(s) == {s[i] : i \in 1..Len(s)}

\* Favorites first, then newest first, as a relation on two listed rows.
ListedBefore(r1, r2) ==
    /\ r2.is_favorite => r1.is_favorite
    /\ r1.is_favorite = r2.is_favorite => TsLeq(r2.timestamp, r1.timestamp)

InOrder(res) == \A i, j \in 1..Len(res) : i < j => ListedBefore(res[i], res[j])

\* The notification being delivered is the click's: the clipboard holds the
\* clicked row's content.
ClickDelivered == OnClipboardChange /\ pending = <<"click">>

\* C1: the change notification that results from a click on a stored item
\* adds no new row with the clicked content.
C1_ClickAddsNoDuplicate ==
    [][ClickDelivered => \A r \in items' \ items : r.content # clipboard.text]_vars

\* The clipboard holds content the store has never seen: new non-blank text,
\* or a new image whose file name is not taken.
GenuineNew(md) ==
    \/ /\ md.image = None
       /\ md.text # None
       /\ ~IsBlank(md.text)
       /\ md.text # last_clipboard_text
       /\ WithContent(items, md.text) = {}
    \/ /\ md.image # None
       /\ md.image # NullImage
       /\ hash_image(md.image) # last_clipboard_image_hash
       /\ WithContent(items, img_path(datetime_now)) = {}

\* C2: the notification caused by a set_clipboard write is ignored and stores
\* nothing, and the next notification, a genuine user copy of new content, is
\* processed and stored.
C2_SuppressionLastsOneCycle ==
    [][OnClipboardChange =>
        /\ pending = <<"set">> => (last'.ret = "ignored" /\ items' = items)
        /\ (echoed /\ pending = <<"user">> /\ GenuineNew(clipboard))
              => last'.ret = "added"]_vars

\* Items inserted so far that are not favorite rows now (rows leave the store
\* by eviction alone under NextRetention, and eviction takes non-favorites).
InsertedNonFavorites == (nextId - 1) - Cardinality(Favorites(items))

\* C3: once more than history_limit non-favorite items have been inserted,
\* the store holds exactly history_limit non-favorite rows after each insert,
\* whatever the number of favorites, and the rows removed are the oldest
\* non-favorite rows.
C3_ExactlyCapNonFavorites ==
    (last.op = "add_item" /\ last.ret /\ InsertedNonFavorites > history_limit) =>
        /\ Cardinality(NonFavorites(items)) = history_limit
        /\ \A e \in before \ items :
              /\ ~e.is_favorite
              /\ \A r \in NonFavorites(items) : TsLeq(e.timestamp, r.timestamp)

\* C4: add_item with content c, while the one row with content c was stored
\* less than a minute earlier, returns False and leaves one row with content c.
C4_DuplicateWithinWindowRejected ==
    (/\ last.op = "add_item"
     /\ Cardinality(WithContent(before, last.arg)) = 1
     /\ \E r \in WithContent(before, last.arg) : now - r.created_at < Window) =>
        /\ last.ret = FALSE
        /\ Cardinality(WithContent(items, last.arg)) = 1

\* C5: no row that is favorite when add_item enforces the history limit is
\* deleted by it.
C5_FavoritesNeverEvicted ==
    last.op = "add_item" => \A r \in before : r.is_favorite => r \in items

\* An insert evicted a row although a favorite at least as old was present.
C5_Witness ==
    /\ last.op = "add_item"
    /\ last.ret
    /\ \E e \in before \ items : \E f \in Favorites(before) :
          TsLeq(f.timestamp, e.timestamp) /\ f \in items

\* C6: two consecutive successful toggle_favorite calls of one id leave the
\* whole store as it was before the first.
C6_ToggleTwiceRestores == before2.twice => items = before2.rows

\* Two such calls were made on a store of several rows.
C6_Witness ==
    /\ before2.twice
    /\ last.op = "toggle_favorite"
    /\ before # items
    /\ Cardinality(items) >= 2

\* C7: search_items returns only rows whose content contains the query, in
\* the favorites-first, newest-first order, at most limit of them.
C7_SearchReturnsOnlyContaining ==
    (last.op = "search_items" /\ connection = "open") =>
        /\ \A r \in Range(last.ret) : Contains(r.content, last.arg.query)
        /\ InOrder(last.ret)
        /\ Len(last.ret) <= last.arg.limit

C9_NoBlankContent == \A r \in items : ~IsBlank(r.content)

\* A notification carrying blank text was handled while rows were stored.
C9_Witness ==
    /\ last.op = "on_clipboard_change"
    /\ last.ret = "blank"
    /\ clipboard.text # None
    /\ IsBlank(clipboard.text)
    /\ items # {}

\* The value each operation returns when it has swallowed an error.
FailureIndicator(op) ==
    IF op \in {"get_history", "search_items"} THEN <<>>
    ELSE IF op = "get_stats" THEN {}
    ELSE FALSE

\* C10: no storage operation lets an exception reach its caller, and on a closed
\* connection each returns its failure indicator.
C10_ErrorsSwallowed ==
    /\ ~last.raised
    /\ (connection = "closed" /\ last.op \in StoreCalls) =>
          last.ret = FailureIndicator(last.op)

\* get_stats was called on a closed connection over a store that has rows.
C10_Witness ==
    /\ connection = "closed"
    /\ last.op = "get_stats"
    /\ items # {}

\* C11: clear_history(keep_favorites=True) leaves exactly the favorite rows,
\* unchanged; clear_history(keep_favorites=False) leaves no row; the window's
\* clear action calls nothing unless the user answers Yes, and then clears
\* with keep_favorites=True.
C11_ClearHistoryKeepsFavorites ==
    /\ (last.op = "clear_history" /\ last.ret = TRUE) =>
          items = (IF last.arg THEN Favorites(before) ELSE {})
    /\ last.op = "ui_clear_history" =>
          /\ last.arg = "No" => (items = before /\ last.ret = None)
          /\ (last.arg = "Yes" /\ last.ret = TRUE) => items = Favorites(before)

\* The window's clear action, confirmed, removed a row and kept a favorite.
C11_Witness ==
    /\ last.op = "ui_clear_history"
    /\ last.arg = "Yes"
    /\ Favorites(before) # {}
    /\ NonFavorites(before) # {}
    /\ items = Favorites(before)

\* C12: a notification whose clipboard offers both an image and a text stores
\* at most one row, an image row, and never a row holding the text.
C12_ImagePreferredOverText ==
    [][(OnClipboardChange /\ clipboard.image # None /\ clipboard.text # None) =>
          /\ Cardinality(items' \ items) <= 1
          /\ \A r \in items' \ items :
                r.content_type = "image" /\ r.content # clipboard.text]_vars

\* Such a notification was handled and its image stored.
C12_Witness ==
    /\ last.op = "on_clipboard_change"
    /\ last.ret = "added"
    /\ clipboard.image # None
    /\ clipboard.text # None
    /\ \E r \in items : r.content_type = "image"

\* The notification being delivered is an image notification that no
\* suppression flag stops and whose image is not null.
ImageNotification ==
    /\ OnClipboardChange
    /\ ~ignore_next_change
    /\ ~skip_next_image
    /\ clipboard.image # None
    /\ clipboard.image # NullImage

\* C13: such a notification stores nothing when the image's hash is the last
\* stored image hash; otherwise it saves the image to a file and inserts a new
\* image row whose file holds that image and is the file of no other row.
C13_EachImageGetsItsOwnRecord ==
    [][ImageNotification =>
          IF hash_image(clipboard.image) = last_clipboard_image_hash
          THEN items' = items
          ELSE \E r \in items' \ items :
                  /\ r.content_type = "image"
                  /\ r.content \in DOMAIN files'
                  /\ files'[r.content] = clipboard.image
                  /\ \A q \in items' \ {r} : q.content # r.content]_vars

\* The notification being delivered is a text notification that no
\* suppression flag stops.
TextNotification ==
    /\ OnClipboardChange
    /\ ~ignore_next_change
    /\ ~skip_next_text
    /\ clipboard.image = None
    /\ clipboard.text # None

\* C14: such a notification inserts a row if and only if its text is not
\* blank and differs from the most recently stored text row's content, and
\* the detector's remembered text is always that row's content.
C14_TextInsertedIffNewAndNonBlank ==
    [][/\ TextNotification =>
            ((items' \ items # {}) <=>
                (~IsBlank(clipboard.text)
                    /\ clipboard.text # stored_text))
       /\ last_clipboard_text' = stored_text']_vars

WithId(rows, item_id) == {r \in rows : r.id = item_id}

\* C15: toggle_favorite(id) changes the is_favorite of the row with that id
\* and nothing else; delete_item(id) removes that row and nothing else; for
\* an id no row has, each returns False and the store is unchanged.
C15_OnlyTheNamedRowAffected ==
    /\ last.op = "toggle_favorite" =>
          /\ items \ WithId(items, last.arg) = before \ WithId(before, last.arg)
          /\ WithId(items, last.arg) =
                {[r EXCEPT !.is_favorite = ~r.is_favorite] :
                    r \in WithId(before, last.arg)}
          /\ last.ret = (WithId(before, last.arg) # {})
    /\ last.op = "delete_item" =>
          /\ items = before \ WithId(before, last.arg)
          /\ last.ret = (WithId(before, last.arg) # {})
    /\ (last.op \in {"toggle_favorite", "delete_item"}
           /\ WithId(before, last.arg) = {}) =>
          (last.ret = FALSE /\ items = before)

\* delete_item removed one row of a store that held others, one of them with
\* a smaller id.
C15_Witness ==
    /\ last.op = "delete_item"
    /\ last.ret = TRUE
    /\ \E r \in items : r.id < last.arg

\* C16: from an empty store, under add_item, toggle_favorite, delete_item and
\* clear_history, the store never holds more than history_limit rows,
\* favorites included.
C16_TotalRowsWithinLimit == Cardinality(items) <= history_limit

\* An insert into a full store that holds a favorite evicted a row.
C16_Witness ==
    /\ last.op = "add_item"
    /\ last.ret = TRUE
    /\ Cardinality(before) = history_limit
    /\ Favorites(before) # {}
    /\ before \ items # {}
    /\ Cardinality(items) = history_limit

\* The timestamp and the id the last successful add_item gave its row.
InsertedTimestamp == [sec |-> LocalTime, us |-> nextId - 1]
InsertedId == nextId - 1

\* C17: when add_item returns True with a timestamp newer than every row
\* already stored, the row it inserted is in the store.
C17_InsertedRowPresent ==
    (/\ last.op = "add_item"
     /\ last.ret = TRUE
     /\ \A r \in before : ~TsLeq(InsertedTimestamp, r.timestamp)) =>
        \E r \in items : r.id = InsertedId /\ r.content = last.arg

\* The notification being delivered is the first after a set_clipboard call
\* that returned False, and carries a user's copy of new content.
AfterFailedSetClipboard ==
    /\ OnClipboardChange
    /\ last.op = "set_clipboard"
    /\ last.ret = FALSE
    /\ pending = <<"user">>
    /\ GenuineNew(clipboard)

\* C18: after set_clipboard has failed and returned False, the next genuine
\* clipboard change by the user is processed and stored.
C18_FailedSetLeavesNoSuppression ==
    [][AfterFailedSetClipboard => last'.ret = "added"]_vars
====
